---- MODULE Spec2Model ----
(***************************************************************************)
(* Documix chat session engine.                                            *)
(*                                                                         *)
(* Spec      : the browser client. ChatComponent (its effects, its         *)
(*             useChat hook and callbacks), the Thread composer, the       *)
(*             ThreadList and the localStorage chat store.                 *)
(* SpecRoute : one POST to a chat endpoint (OpenAI or Groq route), from    *)
(*             the request to the response, over every request, index      *)
(*             content and backend failure drawn in InitRoute.             *)
(* SpecStore : the chat-store functions and the archive handler's storage  *)
(*             call, applied to any id in any order.                       *)
(* SpecOpen  : the ChatComponent opened on any id, known to the store or   *)
(*             not: loads, activations and submits.                        *)
(*                                                                         *)
(* React is modelled at the granularity of its commits: an event handler,  *)
(* the render it causes and the effects of that render are one step. The   *)
(* one render that is split from its cause is the one after a streamed     *)
(* fragment (saveDue), because the end of the stream (onFinish) can arrive *)
(* before or after that render's effects. User events are handled on a     *)
(* committed render (saveDue = FALSE).                                     *)
(*                                                                         *)
(* useChat is the hook of ai/react 4.x: messages and status are kept per   *)
(* chat id (the hook's id option), an id without state of its own shows    *)
(* initialMessages, callbacks passed to a request are those of the render  *)
(* in which the request was started, and there is one abort controller     *)
(* reference for the hook instance. The updates of a request (messages,    *)
(* status) are applied to the chat the request was started under (Target). *)
(***************************************************************************)
EXTENDS Integers, Sequences, FiniteSets, TLC

\* ---------------------------------------------------------------- bounds
MaxIds == 2       \* chat ids generateId() hands out in one run
MaxSubmits == 2   \* chat requests started in one run
MaxFrags == 2     \* text fragments a response stream delivers

\* ------------------------------------------------------------ vocabulary
Ids == 1..MaxIds
\* useState<string | null>(null), and "" after archiving the active thread:
\* both are falsy in every test the code makes of activeThreadId.
NoThread == 0
Keys == Ids \cup {NoThread}
Truthy(id) == id # NoThread

\* The value of the composer's input when a submit entry point is used.
Texts == {"", "q"}
Trim(t) == IF t = " " THEN "" ELSE t

\* new Date(): a Date object. The client model keeps one wall-clock instant.
NewDate == [rep |-> "Date", t |-> 0]

UserMessage(text) == [role |-> "user", content |-> <<text>>, createdAt |-> NewDate]
AssistantMessage(content) ==
    [role |-> "assistant", content |-> content, createdAt |-> NewDate]

\* The k-th text fragment of a response.
FragmentAt(k) == IF k % 2 = 1 THEN "a" ELSE "b"

RECURSIVE Concat(_)
\* String concatenation of the fragments, in order.
Concat(frags) ==
    IF frags = <<>> THEN <<>> ELSE Concat(SubSeq(frags, 1, Len(frags) - 1)) \o <<frags[Len(frags)]>>

\* ------------------------------------------------------ lib/chat-store.ts
\* JSON.stringify of a message: a Date becomes its ISO string.
JSONStringifyMessage(m) == [m EXCEPT !.createdAt = [rep |-> "string", t |-> @.t]]
\* JSON.parse(JSON.stringify(messages)): what a record holds and a load returns.
JSONStringify(msgs) == [i \in 1..Len(msgs) |-> JSONStringifyMessage(msgs[i])]

\* (mutation of SetItem: the value is appended to the item's value)
SetItemAppended(st, id, value) ==
    [k \in (DOMAIN st) \cup {id} |->
        IF k = id THEN (IF id \in DOMAIN st THEN st[id] ELSE <<>>) \o value
                  ELSE st[k]]
\* localStorage.setItem(`chat-${id}`, value)
SetItem(st, id, value) ==
    [k \in (DOMAIN st) \cup {id} |-> IF k = id THEN value ELSE st[k]]
\* (mutation of RemoveItem: the item is left in place)
RemoveItemKept(st, id) == st
\* (mutation of RemoveItem: an unknown key clears the storage)
RemoveItemOrClear(st, id) ==
    IF id \in DOMAIN st THEN [k \in (DOMAIN st) \ {id} |-> st[k]]
                        ELSE [k \in {} |-> <<>>]
\* localStorage.removeItem(`chat-${id}`)
RemoveItem(st, id) == [k \in (DOMAIN st) \ {id} |-> st[k]]

\* createChat(): setItem(`chat-${id}`, "[]") for the generated id.
CreateChat(st, id) == SetItem(st, id, <<>>)
\* (mutation of LoadChat: an unknown id loads the newest record)
LoadChatOfAny(st, id) ==
    IF id \in DOMAIN st THEN st[id]
    ELSE IF DOMAIN st = {} THEN <<>>
    ELSE st[CHOOSE k \in DOMAIN st : \A j \in DOMAIN st : j <= k]
\* loadChat(id): the parsed record, [] when there is none.
LoadChat(st, id) == IF id \in DOMAIN st THEN st[id] ELSE <<>>
\* saveChat({id, messages})
SaveChat(st, id, msgs) == SetItem(st, id, JSONStringify(msgs))
\* typeof window !== "undefined": true in the browser, false in the route
\* handler on the server.
HasWindow(env) == env = "browser"
\* (mutation of SaveChatIn: the record is written wherever saveChat runs)
SaveChatInAny(env, st, id, msgs) == SaveChat(st, id, msgs)
\* saveChat({id, messages}) called in environment env: setItem only where
\* there is a window.
SaveChatIn(env, st, id, msgs) ==
    IF HasWindow(env) THEN SaveChat(st, id, msgs) ELSE st
\* listChats(): the ids of the records it returns a summary for.
ListedIds(st) == DOMAIN st

\* listChats(): title = the first user message's content.slice(0, 30), with
\* "..." when it is longer, or `Chat ${id.slice(0, 6)}` without user message.
TitleLength == 30
Slice(s, n) == SubSeq(s, 1, IF Len(s) < n THEN Len(s) ELSE n)
FirstUser(msgs) ==
    IF \E j \in 1..Len(msgs) : msgs[j].role = "user"
      THEN CHOOSE j \in 1..Len(msgs) :
              /\ msgs[j].role = "user"
              /\ \A h \in 1..(j - 1) : msgs[h].role # "user"
      ELSE 0
\* The characters of a generated id: ids differ past the prefix a title shows.
IdLength == 7
IdPrefixLength == 6
IdChars(id) == [j \in 1..IdLength |-> IF j = IdLength THEN id ELSE 0]
\* (mutation of ChatTitle: the whole content, never an ellipsis)
ChatTitleWhole(id, msgs) ==
    IF FirstUser(msgs) # 0
      THEN [fromId |-> <<>>, text |-> msgs[FirstUser(msgs)].content, ellipsis |-> FALSE]
      ELSE [fromId |-> Slice(IdChars(id), IdPrefixLength), text |-> <<>>,
            ellipsis |-> FALSE]
\* title: content.slice(0, 30) + (content.length > 30 ? "..." : "") of the
\* first user message, `Chat ${id.slice(0, 6)}` without one.
ChatTitle(id, msgs) ==
    IF FirstUser(msgs) # 0
      THEN [fromId |-> <<>>,
            text |-> Slice(msgs[FirstUser(msgs)].content, TitleLength),
            ellipsis |-> Len(msgs[FirstUser(msgs)].content) > TitleLength]
      ELSE [fromId |-> Slice(IdChars(id), IdPrefixLength), text |-> <<>>,
            ellipsis |-> FALSE]
\* listChats(): createdAt = messages[0]?.createdAt || Date.now()
ChatSummary(st, id, now) ==
    [id |-> id,
     title |-> ChatTitle(id, st[id]),
     createdAt |-> IF Len(st[id]) > 0 THEN st[id][1].createdAt
                                      ELSE [rep |-> "number", t |-> now]]
\* The comparator (a, b) => b.createdAt - a.createdAt as Array.prototype.sort
\* reads it: the difference of two numbers (or Dates); NaN, which sort takes
\* as +0, when an operand is a date string.
IsNumeric(v) == v.rep \in {"number", "Date"}
SortCompare(a, b) ==
    IF IsNumeric(a.createdAt) /\ IsNumeric(b.createdAt)
      THEN b.createdAt.t - a.createdAt.t
      ELSE 0
\* chats.sort(comparator): the stable sort of the array.
SortChats(chats) ==
    LET n == Len(chats)
        p == CHOOSE f \in [1..n -> 1..n] :
                /\ \A i, j \in 1..n : i # j => f[i] # f[j]
                /\ \A i, j \in 1..n :
                      i < j => \/ SortCompare(chats[f[i]], chats[f[j]]) < 0
                               \/ /\ SortCompare(chats[f[i]], chats[f[j]]) = 0
                                  /\ f[i] < f[j]
    IN [i \in 1..n |-> chats[p[i]]]
\* The orders in which localStorage.key(i) can enumerate the chat keys (the
\* order of the keys is defined by the user agent).
KeyOrders(st) ==
    {k \in [1..Cardinality(DOMAIN st) -> DOMAIN st] :
        \A i, j \in 1..Cardinality(DOMAIN st) : i # j => k[i] # k[j]}
\* listChats() at time now, the keys enumerated in the order keys.
\* Values of a chat key that are no message list: text JSON.parse throws on,
\* and JSON that is no array ("null", "{}"), on which messages.find throws.
Unparsable ==
    <<[role |-> "unparsable", content |-> <<>>, createdAt |-> [rep |-> "string", t |-> 0]]>>
NotAnArray ==
    <<[role |-> "not an array", content |-> <<>>, createdAt |-> [rep |-> "string", t |-> 0]]>>
CorruptValues == {Unparsable, NotAnArray}
\* The body of the try block of listChats completes for the value.
Listable(value) == value \notin CorruptValues
\* (mutation of ListChats: an exception ends the listing with no result)
ListChatsAborting(st, keys, now) ==
    IF \A i \in 1..Len(keys) : Listable(st[keys[i]])
      THEN SortChats([i \in 1..Len(keys) |-> ChatSummary(st, keys[i], now)])
      ELSE <<>>
\* listChats() at time now, the keys enumerated in the order keys: a summary
\* is pushed for each key whose try block completes, the catch skips the
\* others, and the array is sorted.
ListChats(st, keys, now) ==
    LET pushed == SelectSeq(keys, LAMBDA k : Listable(st[k]))
    IN SortChats([i \in 1..Len(pushed) |-> ChatSummary(st, pushed[i], now)])

VARIABLES
    store,            \* localStorage: chat id -> stored (parsed) message list
    nextId,           \* next id generateId() returns
    activeThreadId,   \* ChatComponent state
    isLoading,        \* ChatComponent state (the "Loading..." guard)
    initialMessages,  \* ChatComponent state
    cache,            \* useChat messages, per chat id that has state
    status,           \* useChat status, per chat id
    reqs,             \* the chat requests started, in order
    abortRef,         \* useChat abortControllerRef: index into reqs, 0 = null
    saveDue,          \* a render of new messages of the active chat is pending
    threads,          \* ThreadList state: the ids listed
    archived,         \* history: the ids archived so far
    route,            \* one POST to a chat endpoint: its inputs and locals
    call,             \* the last direct call of a chat-store function
    storageFull,      \* localStorage.setItem throws (quota exceeded)
    form              \* the legacy ChatForm, its requests and the backend's log

clientVars == <<store, nextId, activeThreadId, isLoading, initialMessages,
                cache, status, reqs, abortRef, saveDue, threads, archived,
                call, storageFull, form>>
clientVars0 == <<store, nextId, activeThreadId, isLoading, initialMessages,
                 cache, status, reqs, abortRef, saveDue, threads, archived,
                 call, storageFull>>
vars == <<store, nextId, activeThreadId, isLoading, initialMessages, cache,
          status, reqs, abortRef, saveDue, threads, archived, route, call,
          storageFull, form>>

\* ------------------------------------------------------------ useChat view
\* useSWR([chatKey, "messages"], null, {fallbackData: initialMessages})
MessagesOf(c, init, k) == IF k \in DOMAIN c THEN c[k] ELSE init
messages == MessagesOf(cache, initialMessages, activeThreadId)
\* setMessages of the render whose chat id is k
SetMessages(c, k, msgs) == [j \in (DOMAIN c) \cup {k} |-> IF j = k THEN msgs ELSE c[j]]
\* isLoading of useChat (chatLoading): status is submitted or streaming
ChatLoading(k) == status[k] \in {"submitted", "streaming"}
\* The Thread component is rendered: not "Loading...", and a thread is active.
ThreadShown == ~isLoading /\ Truthy(activeThreadId)
\* The sidebar (ThreadList) is rendered.
ListShown == ~isLoading
Open(i) == i \in 1..Len(reqs) /\ reqs[i].st = "open"
\* The chat the updates of request r are applied to.
Target(r) == r.key

\* ------------------------------------------------------------ effects
\* debouncedSaveMessages(id, messagesToSave)
DebouncedSaveMessages(st, id, msgs) ==
    IF Truthy(id) /\ Len(msgs) > 0 THEN SaveChat(st, id, msgs) ELSE st
\* The "Save messages when they change" effect, run with the render's values.
SaveMessagesEffect(st, id, msgs) ==
    IF Truthy(id) /\ Len(msgs) > 0 THEN DebouncedSaveMessages(st, id, msgs) ELSE st

\* The commit of a render in which activeThreadId became id (truthy), with
\* its effects in declaration order and the continuation of loadMessages:
\*   loadMessages  : loadChat(id) reads the record,
\*   saveMessages  : saves the messages this render shows for id,
\*   continuation  : setInitialMessages(loaded); setMessages(loaded),
\*   saveMessages  : runs again for the loaded messages.
\* The store after writes that would leave st2: localStorage.setItem throws
\* when the storage is full, the promise of the async function that called it
\* is rejected, nobody awaits it, and the store is as before.
Written(st2) == IF storageFull THEN store ELSE st2

ActivateStore(st, c, init, id) ==
    LET loaded == LoadChat(st, id)
        st1 == SaveMessagesEffect(st, id, MessagesOf(c, init, id))
    IN SaveMessagesEffect(st1, id, loaded)

Activate(st, c, id) ==
    /\ activeThreadId' = id
    /\ store' = Written(ActivateStore(st, c, initialMessages, id))
    /\ initialMessages' = LoadChat(st, id)
    /\ cache' = SetMessages(c, id, LoadChat(st, id))
    /\ isLoading' = FALSE
    /\ threads' = ListedIds(store')
    /\ saveDue' = FALSE

\* ------------------------------------------------------------ chat endpoints
\* The vector index: each passage with its text, its metadata and its score
\* for the query (higher is nearer).
Passages ==
    << [pageContent |-> "X is a widget", source |-> "docs://x", url |-> "docs://x",
        userId |-> "u1", score |-> 9],
       [pageContent |-> "Y is a gadget", source |-> "docs://y", url |-> "",
        userId |-> "u2", score |-> 8],
       [pageContent |-> "X has parts", source |-> "", url |-> "docs://x2",
        userId |-> "u1", score |-> 7],
       [pageContent |-> "Z is secret", source |-> "docs://z", url |-> "docs://z",
        userId |-> "u2", score |-> 6] >>
UserIds == {"u1", "u2"}
\* asRetriever({filter, k: 3})
RetrieverK == 3

\* The retriever's filter: `userId = '${userId}'` on the OpenAI endpoint, ""
\* (no filter expression) on the Groq endpoint.
RetrieverFilter(endpoint, userId) ==
    IF endpoint = "openai" THEN [field |-> "userId", value |-> userId]
                           ELSE [field |-> "", value |-> ""]
Matches(filter, p) == filter.field = "" \/ p.userId = filter.value

RECURSIVE TopK(_, _)
\* The k best-scored passages of the set ps (indices), best first.
TopK(ps, k) ==
    IF ps = {} \/ k = 0 THEN <<>>
    ELSE LET best == CHOOSE i \in ps : \A j \in ps : Passages[j].score <= Passages[i].score
         IN <<Passages[best]>> \o TopK(ps \ {best}, k - 1)
\* retriever.invoke(queryText) on an index holding the passages idx.
RetrieverInvoke(idx, filter) ==
    TopK({i \in idx : Matches(filter, Passages[i])}, RetrieverK)

\* Message content of a request body: a string (its characters) or an array
\* of parts (strings, text parts, parts without text such as images).
StringContent(text) == [kind |-> "string", text |-> text, parts |-> <<>>]
ArrayContent(parts) == [kind |-> "array", text |-> <<>>, parts |-> parts]
TextPart(text) == [type |-> "text", text |-> text]
ImagePart == [type |-> "image", text |-> <<>>]
\* The truth value of lastMessage.content: "" is falsy, an array is truthy.
ContentTruthy(content) == content.kind = "array" \/ content.text # <<>>
RECURSIVE Join(_, _)
\* texts.join(sep)
Join(texts, sep) ==
    IF texts = <<>> THEN <<>>
    ELSE IF Len(texts) = 1 THEN texts[1]
    ELSE texts[1] \o sep \o Join(Tail(texts), sep)
\* queryText: the parts' text (item, or item.text || "") joined by " " for an
\* array, content.toString() otherwise.
QueryTextOf(content) ==
    IF content.kind = "array"
      THEN Join([j \in 1..Len(content.parts) |-> content.parts[j].text], <<" ">>)
      ELSE content.text
\* text.trim() === ""
IsBlank(text) == \A j \in 1..Len(text) : text[j] = " "

\* messages[messages.length - 1], and the test `lastMessage && lastMessage.content`
HasQuery(msgs) == Len(msgs) > 0 /\ ContentTruthy(msgs[Len(msgs)].content)

\* The request bodies the model submits to an endpoint.
ChatMessage(role, content) == [role |-> role, content |-> content]
Histories ==
    { <<>>,
      <<ChatMessage("user", StringContent(<<"q">>))>>,
      <<ChatMessage("user", StringContent(<<>>))>>,
      <<ChatMessage("user", StringContent(<<" ">>))>>,
      <<ChatMessage("user", ArrayContent(<<TextPart(<<"q">>), ImagePart>>))>>,
      <<ChatMessage("user", ArrayContent(<<>>))>>,
      <<ChatMessage("user", StringContent(<<"q">>)),
        ChatMessage("assistant", StringContent(<<"r">>))>>,
      <<ChatMessage("user", StringContent(<<"q">>)),
        ChatMessage("assistant", StringContent(<<"r">>)),
        ChatMessage("user", StringContent(<<"s">>))>> }

\* One document of contextText: `Document ${index + 1}` and metadata.source
\* on the OpenAI endpoint, `Document ${doc.metadata.url}` and metadata.url on
\* the Groq endpoint; "Unknown" for a source that is missing.
DocumentEntry(endpoint, doc, index) ==
    IF endpoint = "openai"
      THEN [number |-> index, label |-> "",
            pageContent |-> doc.pageContent,
            source |-> IF doc.source # "" THEN doc.source ELSE "Unknown"]
      ELSE [number |-> 0, label |-> IF doc.url # "" THEN doc.url ELSE "undefined",
            pageContent |-> doc.pageContent,
            source |-> IF doc.url # "" THEN doc.url ELSE "Unknown"]
ContextText(endpoint, docs) ==
    [j \in 1..Len(docs) |-> DocumentEntry(endpoint, docs[j], j)]
\* (mutation of SystemBlocks: the system prompt is always set)
SystemBlocksAlways(endpoint, docs) == <<ContextText(endpoint, docs)>>
\* streamText({system}): the prompt with contextText when documents were
\* retrieved, undefined otherwise.
SystemBlocks(endpoint, docs) ==
    IF Len(docs) > 0 THEN <<ContextText(endpoint, docs)>> ELSE <<>>

RouteIdle ==
    [endpoint |-> "none", userId |-> "", messages |-> <<>>, index |-> {},
     setupFails |-> FALSE, retrieverFails |-> FALSE, pc |-> "idle",
     retrieverCalled |-> FALSE, queryText |-> <<>>, retrievedDocs |-> <<>>,
     hasSystem |-> FALSE, system |-> <<>>, response |-> "none",
     id |-> NoThread, finished |-> FALSE, saveCalled |-> FALSE]

\* POST, up to the retriever: new Index(...), fromExistingIndex, asRetriever.
\* A failure here is thrown: the OpenAI handler's catch answers 500, the Groq
\* handler has no catch and the request fails.
RouteSetup ==
    /\ route.pc = "start"
    /\ route' = IF route.setupFails
                  THEN [route EXCEPT !.pc = "done",
                                     !.response = IF route.endpoint = "openai"
                                                    THEN "json500" ELSE "unhandled"]
                  ELSE [route EXCEPT !.pc = "retrieve"]
    /\ UNCHANGED clientVars

\* POST, the retrieval: invoked for a last message with content; a throw of
\* the retriever is caught and leaves retrievedDocs empty.
RouteRetrieve ==
    /\ route.pc = "retrieve"
    /\ route' =
         IF HasQuery(route.messages)
           THEN [route EXCEPT
                   !.pc = "generate", !.retrieverCalled = TRUE,
                   !.queryText = QueryTextOf(route.messages[Len(route.messages)].content),
                   !.retrievedDocs =
                       IF route.retrieverFails THEN <<>>
                       ELSE RetrieverInvoke(route.index,
                                RetrieverFilter(route.endpoint, route.userId))]
           ELSE [route EXCEPT !.pc = "generate"]
    /\ UNCHANGED clientVars

\* POST, streamText: the system prompt is set when documents were retrieved;
\* the data stream response is returned.
RouteGenerate ==
    /\ route.pc = "generate"
    /\ route' = [route EXCEPT !.pc = "done",
                              !.hasSystem = (Len(route.retrievedDocs) > 0),
                              !.system = SystemBlocks(route.endpoint, route.retrievedDocs),
                              !.response = "stream"]
    /\ UNCHANGED clientVars

\* appendResponseMessages({messages, responseMessages}): the request's
\* messages and the assistant message of the response.
FinalMessages(msgs) ==
    [j \in 1..Len(msgs) |-> [role |-> msgs[j].role,
                             content |-> QueryTextOf(msgs[j].content),
                             createdAt |-> NewDate]]
    \o <<AssistantMessage(<<"a">>)>>
\* onFinish of streamText, on the server: for a request with an id,
\* saveChat is called when typeof window === "undefined".
RouteSaveCalled(id) == Truthy(id) /\ ~HasWindow("server")
RouteOnFinishStore(st, id, msgs) ==
    IF RouteSaveCalled(id) THEN SaveChatIn("server", st, id, FinalMessages(msgs)) ELSE st
\* The stream of the OpenAI endpoint ends: onFinish runs.
RouteOnFinish ==
    /\ route.pc = "done" /\ route.response = "stream"
    /\ route.endpoint = "openai" /\ ~route.finished
    /\ store' = RouteOnFinishStore(store, route.id, route.messages)
    /\ route' = [route EXCEPT !.finished = TRUE,
                              !.saveCalled = RouteSaveCalled(route.id)]
    /\ UNCHANGED <<nextId, activeThreadId, isLoading, initialMessages, cache,
                   status, reqs, abortRef, saveDue, threads, archived, call,
                   storageFull, form>>

\* ------------------------------------------------------------ legacy ChatForm
\* The ChatForm of documix-frontend with its useChat({api: "/api/chat",
\* body: {collection_name}}), the /api/chat route and the backend's /query.
MaxFormRequests == 2
FormTexts == {"", " ", "q"}
\* The collection names the backend's /scrape returns; NoCollection is null.
NoCollection == ""
Collections == {"c1", "c2"}
\* The two POST handlers of /api/chat the repository holds.
ChatRoutes == {"query", "body"}
FormIdle ==
    [chatRoute |-> "none", collectionName |-> NoCollection, input |-> "",
     isLoading |-> FALSE, requests |-> <<>>, queries |-> <<>>]

\* setInput(v)
FormSetInput(text) ==
    /\ form.chatRoute # "none" /\ text # form.input
    /\ form' = [form EXCEPT !.input = text]
    /\ UNCHANGED <<clientVars0, route>>

\* handleUrlSubmit: an invalid url returns; setCollectionName with the answer
\* of a /scrape that answered OK, nothing changes otherwise.
HandleUrlSubmit(valid, ok, name) ==
    /\ form.chatRoute # "none"
    /\ form' = IF valid /\ ok THEN [form EXCEPT !.collectionName = name] ELSE form
    /\ UNCHANGED <<clientVars0, route>>

\* handleSubmit: returns for an input that trims to nothing; append() posts
\* {messages, collection_name} (useChat spreads its body option into the
\* request body) and the hook is loading.
FormAppend(f) ==
    IF Trim(f.input) = "" THEN f
    ELSE [f EXCEPT !.isLoading = TRUE,
                   !.requests = Append(@, [content |-> f.input,
                                           collection_name |-> f.collectionName,
                                           st |-> "open", answer |-> "none"])]
\* The form's onSubmit through the send button, disabled while isLoading.
FormSubmitClick ==
    /\ form.chatRoute # "none" /\ ~form.isLoading
    /\ Len(form.requests) < MaxFormRequests
    /\ form' = FormAppend(form)
    /\ UNCHANGED <<clientVars0, route>>
\* handleKeyDown: Enter without Shift calls handleSubmit.
FormKeyDown ==
    /\ form.chatRoute # "none"
    /\ Len(form.requests) < MaxFormRequests
    /\ form' = FormAppend(form)
    /\ UNCHANGED <<clientVars0, route>>

\* POST /api/chat for request i and the end of the request in the hook.
\* "query": the handler forwards {query: lastMessage.content} to /query and
\* answers with the assistant message when the backend answers OK, with 500
\* otherwise. "body": the handler reads `body` of the request JSON, which the
\* client never sends, and `body.collection_name` throws before the fetch:
\* the catch answers with NextResponse.error().
FormRoute(i, ok) ==
    /\ i \in 1..Len(form.requests) /\ form.requests[i].st = "open"
    /\ form' =
         IF form.chatRoute = "query"
           THEN [form EXCEPT
                   !.queries = Append(@, [request |-> i,
                                          query |-> form.requests[i].content,
                                          scoped |-> FALSE,
                                          collection_name |-> NoCollection]),
                   !.requests[i].st = "done",
                   !.requests[i].answer = IF ok THEN "assistant" ELSE "error",
                   !.isLoading = FALSE]
           ELSE [form EXCEPT !.requests[i].st = "done",
                             !.requests[i].answer = "error",
                             !.isLoading = FALSE]
    /\ UNCHANGED <<clientVars0, route>>

\* ------------------------------------------------------------ initial state
\* No chat-store function has been called directly.
CallIdle ==
    [op |-> "none", id |-> NoThread, arg |-> <<>>, had |-> FALSE,
     before |-> <<>>, result |-> <<>>, listing |-> <<>>, again |-> FALSE,
     earlier |-> <<>>, keys |-> <<>>, now |-> 0]

\* Records left by an earlier session: a completed turn, and the record that
\* an onFinish save applied last leaves (the assistant message alone).
EarlierChat == JSONStringify(<<UserMessage("p"), AssistantMessage(<<"a">>)>>)
EarlierStale == JSONStringify(<<AssistantMessage(<<"a">>)>>)
EarlierStores ==
    {[k \in {} |-> <<>>], [k \in {1} |-> EarlierChat], [k \in {1} |-> EarlierStale]}

ClientInit ==
    /\ nextId = Cardinality(DOMAIN store) + 1
    /\ activeThreadId = NoThread
    /\ isLoading = TRUE
    /\ initialMessages = <<>>
    /\ cache = [k \in {} |-> <<>>]
    /\ status = [k \in Keys |-> "ready"]
    /\ reqs = <<>>
    /\ abortRef = 0
    /\ saveDue = FALSE
    /\ threads = {}
    /\ archived = {}
    /\ call = CallIdle
    /\ storageFull = FALSE
    /\ form = FormIdle

Init ==
    /\ store \in EarlierStores
    /\ ClientInit
    /\ route = RouteIdle

InitRoute ==
    /\ store \in EarlierStores
    /\ ClientInit
    /\ \E e \in {"openai", "groq"}, u \in UserIds, h \in Histories,
          idx \in SUBSET (1..Len(Passages)), sf \in BOOLEAN, rf \in BOOLEAN,
          id \in Keys :
          route = [RouteIdle EXCEPT !.endpoint = e, !.userId = u, !.messages = h,
                                    !.index = idx, !.setupFails = sf,
                                    !.retrieverFails = rf, !.pc = "start",
                                    !.id = id]

\* ------------------------------------------------------------ ChatComponent
\* initChat (mount, activeThreadId null): createChat, then the activation of
\* the new id.
InitChat ==
    /\ isLoading /\ activeThreadId = NoThread /\ nextId <= MaxIds
    /\ ~storageFull
    /\ Activate(CreateChat(store, nextId), cache, nextId)
    /\ nextId' = nextId + 1
    /\ UNCHANGED <<status, reqs, abortRef, archived, route, call, storageFull, form>>

\* handleNewThread: createChat; setActiveThreadId(id); setMessages([]) of the
\* chat shown when the button was clicked.
HandleNewThread ==
    /\ ListShown /\ ~saveDue /\ nextId <= MaxIds
    /\ ~storageFull
    /\ Activate(CreateChat(store, nextId),
                SetMessages(cache, activeThreadId, <<>>), nextId)
    /\ nextId' = nextId + 1
    /\ UNCHANGED <<status, reqs, abortRef, archived, route, call, storageFull, form>>

\* ThreadList: click on a listed thread, setActiveThreadId(thread.id).
SelectThread(id) ==
    /\ ListShown /\ ~saveDue /\ id \in threads /\ id # activeThreadId
    /\ Activate(store, cache, id)
    /\ UNCHANGED <<nextId, status, reqs, abortRef, archived, route, call, storageFull, form>>

\* ThreadList handleArchiveThread(id).
HandleArchiveThread(id) ==
    /\ ListShown /\ ~saveDue /\ id \in threads
    /\ store' = RemoveItem(store, id)
    /\ archived' = archived \cup {id}
    /\ IF id = activeThreadId
         THEN /\ activeThreadId' = NoThread
              /\ threads' = ListedIds(store')
         ELSE /\ activeThreadId' = activeThreadId
              /\ threads' = threads \ {id}
    /\ UNCHANGED <<nextId, isLoading, initialMessages, cache, status, reqs,
                   abortRef, saveDue, route, call, storageFull, form>>

\* ------------------------------------------------------------ useChat
\* handleSubmit of useChat with the input holding text: nothing for an empty
\* input; otherwise the user message is appended, the request is started with
\* the callbacks of this render, and the render that follows saves.
HandleSubmit(text) ==
    /\ text # ""
    /\ Len(reqs) < MaxSubmits
    /\ LET k == activeThreadId
           base == Append(messages, UserMessage(text))
       IN /\ reqs' = Append(reqs, [key |-> k, tid |-> activeThreadId,
                                   closure |-> messages, base |-> base,
                                   emitted |-> <<>>, st |-> "open"])
          /\ abortRef' = Len(reqs) + 1
          /\ cache' = SetMessages(cache, k, base)
          /\ status' = [status EXCEPT ![k] = "submitted"]
          /\ store' = Written(SaveMessagesEffect(store, activeThreadId, base))
    /\ UNCHANGED <<nextId, activeThreadId, isLoading, initialMessages, saveDue,
                   threads, archived, route, call, storageFull, form>>

\* Thread: the Send control (type="submit"), rendered while !isLoading.
SendClick(text) ==
    /\ ThreadShown /\ ~saveDue /\ ~ChatLoading(activeThreadId)
    /\ HandleSubmit(text)

\* Thread handleKeyDown: Ctrl/Cmd+Enter.
HandleKeyDown(text) ==
    /\ ThreadShown /\ ~saveDue
    /\ Trim(text) # "" /\ ~ChatLoading(activeThreadId)
    /\ HandleSubmit(text)

\* Thread handleSuggestionClick: the suggestions are rendered while the chat
\* has no messages; handleSubmit reads the hook's input, not the suggestion.
HandleSuggestionClick(text) ==
    /\ ThreadShown /\ ~saveDue /\ Len(messages) = 0
    /\ HandleSubmit(text)

\* reload() of useChat (the Refresh control of an assistant message, rendered
\* whatever the status): the last assistant message is dropped and a request
\* is started for the rest.
HasAssistant(msgs) == \E j \in 1..Len(msgs) : msgs[j].role = "assistant"
ReloadMessages(msgs) ==
    IF msgs[Len(msgs)].role = "assistant" THEN SubSeq(msgs, 1, Len(msgs) - 1) ELSE msgs
Reload ==
    /\ ThreadShown /\ ~saveDue /\ HasAssistant(messages)
    /\ Len(reqs) < MaxSubmits
    /\ LET k == activeThreadId
           base == ReloadMessages(messages)
       IN /\ reqs' = Append(reqs, [key |-> k, tid |-> activeThreadId,
                                   closure |-> messages, base |-> base,
                                   emitted |-> <<>>, st |-> "open"])
          /\ abortRef' = Len(reqs) + 1
          /\ cache' = SetMessages(cache, k, base)
          /\ status' = [status EXCEPT ![k] = "submitted"]
          /\ store' = Written(SaveMessagesEffect(store, activeThreadId, base))
    /\ UNCHANGED <<nextId, activeThreadId, isLoading, initialMessages, saveDue,
                   threads, archived, route, call, storageFull, form>>

\* A text fragment of request i arrives (onUpdate): the chat's messages become
\* the request's messages plus the assistant message accumulated so far.
Fragment(i) ==
    /\ Open(i) /\ Len(reqs[i].emitted) < MaxFrags
    /\ LET r == reqs[i]
           k == Target(r)
           em == Append(r.emitted, FragmentAt(Len(r.emitted) + 1))
       IN /\ reqs' = [reqs EXCEPT ![i].emitted = em]
          /\ cache' = SetMessages(cache, k,
                                  Append(r.base, AssistantMessage(Concat(em))))
          /\ status' = [status EXCEPT ![k] = "streaming"]
          /\ saveDue' = (saveDue \/ k = activeThreadId)
    /\ UNCHANGED <<store, nextId, activeThreadId, isLoading, initialMessages,
                   abortRef, threads, archived, route, call, storageFull, form>>

\* The render after fragments of the active chat commits: saveMessages effect.
SaveEffect ==
    /\ saveDue
    /\ store' = Written(SaveMessagesEffect(store, activeThreadId, messages))
    /\ saveDue' = FALSE
    /\ UNCHANGED <<nextId, activeThreadId, isLoading, initialMessages, cache,
                   status, reqs, abortRef, threads, archived, route, call, storageFull, form>>

\* onFinish(message) of the render that submitted request i.
OnFinish(st, r) ==
    IF Truthy(r.tid)
      THEN SaveChat(st, r.tid, Append(r.closure, AssistantMessage(Concat(r.emitted))))
      ELSE st

\* The stream of request i ends normally: onFinish, status ready.
Finish(i) ==
    /\ Open(i) /\ Len(reqs[i].emitted) >= 1
    /\ store' = Written(OnFinish(store, reqs[i]))
    /\ reqs' = [reqs EXCEPT ![i].st = "done"]
    /\ status' = [status EXCEPT ![Target(reqs[i])] = "ready"]
    /\ abortRef' = 0
    /\ UNCHANGED <<nextId, activeThreadId, isLoading, initialMessages, cache,
                   saveDue, threads, archived, route, call, storageFull, form>>

\* stop(): aborts the request the abort controller reference holds.
StopRequests(rs, ref) ==
    IF ref # 0 /\ rs[ref].st = "open" THEN [rs EXCEPT ![ref].st = "aborted"] ELSE rs
StopStatus(s, rs, ref) ==
    IF ref # 0 /\ rs[ref].st = "open" THEN [s EXCEPT ![Target(rs[ref])] = "ready"] ELSE s

\* Thread: the Cancel control (onStop), rendered while isLoading.
Stop ==
    /\ ThreadShown /\ ~saveDue /\ ChatLoading(activeThreadId)
    /\ reqs' = StopRequests(reqs, abortRef)
    /\ status' = StopStatus(status, reqs, abortRef)
    /\ abortRef' = 0
    /\ UNCHANGED <<store, nextId, activeThreadId, isLoading, initialMessages,
                   cache, saveDue, threads, archived, route, call, storageFull, form>>

\* The request fails: the endpoint answers with an error (no fragment yet) or
\* the stream breaks. status error; the messages are kept; no onFinish.
ProviderError(i) ==
    /\ Open(i)
    /\ reqs' = [reqs EXCEPT ![i].st = "error"]
    /\ status' = [status EXCEPT ![Target(reqs[i])] = "error"]
    /\ UNCHANGED <<store, nextId, activeThreadId, isLoading, initialMessages,
                   cache, abortRef, saveDue, threads, archived, route, call, storageFull, form>>

\* The storage reaches its quota: from here on setItem throws.
StorageFills ==
    /\ ~storageFull
    /\ storageFull' = TRUE
    /\ UNCHANGED <<store, nextId, activeThreadId, isLoading, initialMessages,
                   cache, status, reqs, abortRef, saveDue, threads, archived,
                   route, call, form>>

Next ==
    \/ InitChat
    \/ HandleNewThread
    \/ \E id \in Ids : SelectThread(id)
    \/ \E id \in Ids : HandleArchiveThread(id)
    \/ \E text \in Texts : SendClick(text)
    \/ \E text \in Texts : HandleKeyDown(text)
    \/ \E text \in Texts : HandleSuggestionClick(text)
    \/ Reload
    \/ \E i \in 1..MaxSubmits : Fragment(i)
    \/ SaveEffect
    \/ \E i \in 1..MaxSubmits : Finish(i)
    \/ Stop
    \/ \E i \in 1..MaxSubmits : ProviderError(i)
    \/ StorageFills

Spec == Init /\ [][Next]_vars

\* ------------------------------------------------------------ chat store
\* The chat-store functions and the archive handler's storage call, applied
\* to any id in any order.
At(m, t) == [m EXCEPT !.createdAt.t = t]
Times == 1..3
ListNow == Cardinality(Times) + 1
\* The values of Date.now() at the calls of listChats: later than every
\* message and every createChat.
ListTimes == {ListNow, ListNow + 1}
\* The message lists saved: lists of useChat (createdAt a Date) and a list
\* that was loaded from the store before.
\* A user message whose content has n characters.
Chars(n) == [j \in 1..n |-> "x"]
LongMessage(n) == [UserMessage("") EXCEPT !.content = Chars(n)]
SavedSequences ==
    { <<>>,
      <<At(LongMessage(TitleLength), 1)>>,
      <<At(AssistantMessage(<<"a">>), 1), At(LongMessage(TitleLength + 1), 2)>>,
      <<At(UserMessage("q"), 1)>>,
      <<At(UserMessage("p"), 2)>>,
      <<At(UserMessage("q"), 1), At(AssistantMessage(<<"a">>), 2)>>,
      JSONStringify(<<At(UserMessage("p"), 2), At(AssistantMessage(<<"a", "b">>), 3)>>) }
StoreVarsKept ==
    <<nextId, activeThreadId, isLoading, initialMessages, cache, status, reqs,
      abortRef, saveDue, threads, route, storageFull, form>>
Called(op, id, arg) ==
    [CallIdle EXCEPT !.op = op, !.id = id, !.arg = arg,
                     !.had = (id \in DOMAIN store),
                     !.before = LoadChat(store, id)]

StoreCreate(id) ==
    /\ id \notin DOMAIN store \cup archived
    /\ store' = CreateChat(store, id)
    /\ call' = Called("create", id, <<>>)
    /\ UNCHANGED archived
    /\ UNCHANGED StoreVarsKept
StoreSave(id, msgs) ==
    /\ store' = SaveChat(store, id, msgs)
    /\ call' = Called("save", id, msgs)
    /\ UNCHANGED archived
    /\ UNCHANGED StoreVarsKept
StoreLoad(id) ==
    /\ call' = [Called("load", id, <<>>) EXCEPT !.result = LoadChat(store, id)]
    /\ UNCHANGED <<store, archived>>
    /\ UNCHANGED StoreVarsKept
StoreList(keys) ==
    /\ \E now \in ListTimes :
          call' = [Called("list", NoThread, <<>>)
                     EXCEPT !.listing = ListChats(store, keys, now),
                            !.keys = keys, !.now = now,
                            !.again = (call.op = "list"),
                            !.earlier = call.listing]
    /\ UNCHANGED <<store, archived>>
    /\ UNCHANGED StoreVarsKept
StoreArchive(id) ==
    /\ store' = RemoveItem(store, id)
    /\ archived' = archived \cup {id}
    /\ call' = Called("archive", id, <<>>)
    /\ UNCHANGED StoreVarsKept
\* setActiveThreadId(id) for any id (a thread item of a list that is older
\* than the store, another tab having archived since) and the effects of the
\* render that follows.
StoreActivate(id) ==
    /\ ~saveDue /\ id # activeThreadId
    /\ Activate(store, cache, id)
    /\ call' = Called("activate", id, <<>>)
    /\ UNCHANGED <<nextId, status, reqs, abortRef, archived, route, storageFull, form>>

InitStore ==
    /\ store = [k \in {} |-> <<>>]
    /\ ClientInit
    /\ route = RouteIdle
NextStore ==
    \/ \E id \in Ids : StoreCreate(id)
    \/ \E id \in Ids, msgs \in SavedSequences : StoreSave(id, msgs)
    \/ \E id \in Ids : StoreLoad(id)
    \/ \E keys \in KeyOrders(store) : StoreList(keys)
    \/ \E id \in Ids : StoreArchive(id)
SpecStore == InitStore /\ [][NextStore]_vars

\* Something other than the chat store (another script of the origin, the
\* user in the developer tools) sets a chat key to a value that is no
\* message list.
StoreCorrupt(id, value) ==
    /\ store' = SetItem(store, id, value)
    /\ call' = Called("corrupt", id, value)
    /\ UNCHANGED archived
    /\ UNCHANGED StoreVarsKept
\* The chat store on a storage that can hold corrupt values: no loadChat.
NextCorrupt ==
    \/ \E id \in Ids : StoreCreate(id)
    \/ \E id \in Ids, msgs \in SavedSequences : StoreSave(id, msgs)
    \/ \E id \in Ids, value \in CorruptValues : StoreCorrupt(id, value)
    \/ \E keys \in KeyOrders(store) : StoreList(keys)
    \/ \E id \in Ids : StoreArchive(id)
SpecCorrupt == InitStore /\ [][NextCorrupt]_vars

\* The ChatComponent opened on any id, known to the store or not: loads,
\* activations and submits.
InitOpen ==
    /\ store \in EarlierStores
    /\ ClientInit
    /\ route = RouteIdle
NextOpen ==
    \/ \E id \in Ids : StoreLoad(id)
    \/ \E id \in Ids : StoreActivate(id)
    \/ \E text \in Texts : SendClick(text)
    \/ (nextId \notin DOMAIN store \cup DOMAIN cache /\ HandleNewThread)
    \/ Reload
SpecOpen == InitOpen /\ [][NextOpen]_vars

\* The legacy ChatForm served by either handler of /api/chat.
InitLegacy ==
    /\ store = [k \in {} |-> <<>>]
    /\ nextId = 1 /\ activeThreadId = NoThread /\ isLoading = TRUE
    /\ initialMessages = <<>> /\ cache = [k \in {} |-> <<>>]
    /\ status = [k \in Keys |-> "ready"] /\ reqs = <<>> /\ abortRef = 0
    /\ saveDue = FALSE /\ threads = {} /\ archived = {} /\ call = CallIdle
    /\ storageFull = FALSE /\ route = RouteIdle
    /\ \E r \in ChatRoutes : form = [FormIdle EXCEPT !.chatRoute = r]
NextLegacy ==
    \/ \E text \in FormTexts : FormSetInput(text)
    \/ \E valid \in BOOLEAN, ok \in BOOLEAN, name \in Collections :
          HandleUrlSubmit(valid, ok, name)
    \/ FormSubmitClick
    \/ FormKeyDown
    \/ \E i \in 1..MaxFormRequests, ok \in BOOLEAN : FormRoute(i, ok)
SpecLegacy == InitLegacy /\ [][NextLegacy]_vars

NextRoute == RouteSetup \/ RouteRetrieve \/ RouteGenerate \/ RouteOnFinish
SpecRoute == InitRoute /\ [][NextRoute]_vars

\* ------------------------------------------------------------ properties
Last(seq) == seq[Len(seq)]
\* Request i is a turn on the conversation the view shows.
TurnOfView(i) == i \in 1..Len(reqs) /\ reqs[i].tid = activeThreadId
\* The view of the active conversation is Ready / Streaming.
ViewReady == ThreadShown /\ ~ChatLoading(activeThreadId)
ViewStreaming == ThreadShown /\ ChatLoading(activeThreadId)

\* C1: whenever a turn of the active conversation has completed (its stream
\* ended normally, the view is Ready, no request of the conversation is
\* running and no render is pending), the record stored under the
\* conversation id is the (serialised) in-memory message list.
C1_StoreEqualsMemory ==
    (/\ ViewReady /\ ~saveDue
     /\ \E i \in 1..Len(reqs) : TurnOfView(i) /\ reqs[i].st = "done"
     /\ \A i \in 1..Len(reqs) : TurnOfView(i) => reqs[i].st # "open")
    => /\ activeThreadId \in DOMAIN store
       /\ store[activeThreadId] = JSONStringify(messages)

\* A submit through one of the composer's entry points.
SubmitStep ==
    \E text \in Texts :
       SendClick(text) \/ HandleKeyDown(text) \/ HandleSuggestionClick(text)

\* C2: while the conversation the Thread view shows is Streaming, a submit
\* through an entry point of the composer (send control, Ctrl/Cmd+Enter,
\* suggestion click) starts no chat request.
C2_NoSubmitWhileStreaming ==
    [][(ViewStreaming /\ SubmitStep) => Len(reqs') = Len(reqs)]_vars

\* C3: a stop issued on a Streaming conversation whose turn i has emitted at
\* least one fragment ends that turn there (no later fragment is accepted)
\* and leaves, as the conversation's last message, a non-empty assistant
\* message whose content is the concatenation of the fragments emitted.
C3_StopKeepsEmitted ==
    [][\A i \in 1..MaxSubmits :
          (Stop /\ Open(i) /\ TurnOfView(i) /\ reqs[i].emitted # <<>>)
          => /\ reqs'[i].st = "aborted"
             /\ Len(messages') > 0
             /\ Last(messages').role = "assistant"
             /\ Last(messages').content = Concat(reqs[i].emitted)
             /\ Last(messages').content # <<>>]_vars

\* C4: a stop issued while the shown conversation is Streaming leaves it
\* Ready (status ready: not streaming, not error).
C4_StopLeadsToReady ==
    [][(Stop /\ ViewStreaming) => status'[activeThreadId] = "ready"]_vars

\* C5: once a turn that was closed by a stop or by a provider failure after
\* at least one fragment is the last turn of its conversation, nothing of
\* the conversation is running or pending and the conversation was not
\* archived, the stored record ends with the partial assistant message.
C5_PartialPersisted ==
    \A i \in 1..Len(reqs) :
       (/\ reqs[i].st \in {"aborted", "error"} /\ reqs[i].emitted # <<>>
        /\ ~saveDue
        /\ \A j \in 1..Len(reqs) : reqs[j].tid = reqs[i].tid => (j <= i /\ reqs[j].st # "open")
        /\ reqs[i].tid \notin archived)
       => /\ reqs[i].tid \in DOMAIN store
          /\ Len(store[reqs[i].tid]) > 0
          /\ Last(store[reqs[i].tid]) =
                JSONStringifyMessage(AssistantMessage(Concat(reqs[i].emitted)))

\* C8: an archived id has no record and is never the active thread again.
C8_ArchivedStaysRemoved ==
    \A id \in archived : id \notin DOMAIN store /\ activeThreadId # id

\* C6: a request whose retrieval backend failed (set-up or retriever call)
\* still ends with generation started, without a grounding block.
C6_RetrievalFailureSoft ==
    (route.pc = "done" /\ (route.setupFails \/ route.retrieverFails))
    => (route.response = "stream" /\ ~route.hasSystem)

\* C7: every retrieved passage was indexed under the requesting user's id.
C7_RetrievalScoped ==
    \A j \in 1..Len(route.retrievedDocs) : route.retrievedDocs[j].userId = route.userId

\* C9: a step of the archive handler on id leaves no summary of id in the
\* list and an empty load of id, and every other stored conversation is
\* still listed and loads what it loaded before.
C9_ArchiveRemovesOnlyId ==
    [][\A id \in Ids :
          HandleArchiveThread(id)
          => /\ id \notin ListedIds(store')
             /\ id \notin threads'
             /\ LoadChat(store', id) = <<>>
             /\ \A o \in ListedIds(store) \ {id} :
                   o \in ListedIds(store') /\ LoadChat(store', o) = LoadChat(store, o)]_vars
\* An archive has happened while another conversation with messages is stored.
C9_Witness ==
    \E id \in archived :
       /\ id \notin DOMAIN store
       /\ \E o \in DOMAIN store : o # id /\ Len(store[o]) > 0

\* C10: archiving an id the store has no record of (unknown or already
\* archived) leaves the store unchanged, and archiving the id once more
\* after any archive changes nothing.
C10_ArchiveIdempotent ==
    [][\A id \in Ids :
          StoreArchive(id)
          => /\ (id \notin DOMAIN store => store' = store)
             /\ RemoveItem(store', id) = store']_vars
\* An id was archived while other records exist and the id has no record:
\* the state in which the archive of an archived id acts.
C10_Witness ==
    \E id \in archived : id \notin DOMAIN store /\ DOMAIN store # {}

\* C11: after save(id, M), with no write since, load(id) returns M.
C11_RoundTrip ==
    call.op = "save" => LoadChat(store, call.id) = call.arg

\* C12: save(id, M) leaves as the record of id the serialisation of M and
\* nothing of what was stored before, and leaves every other id as it was
\* (stored or not, and its record).
C12_SaveReplaces ==
    [][\A id \in Ids, msgs \in SavedSequences :
          StoreSave(id, msgs)
          => /\ id \in DOMAIN store'
             /\ store'[id] = JSONStringify(msgs)
             /\ \A o \in Ids \ {id} :
                   /\ (o \in DOMAIN store') = (o \in DOMAIN store)
                   /\ LoadChat(store', o) = LoadChat(store, o)]_vars
\* A save has replaced a different, non-empty record while another
\* conversation with messages is stored.
C12_Witness ==
    /\ call.op = "save" /\ call.had
    /\ call.before # <<>> /\ call.arg # <<>>
    /\ call.before # JSONStringify(call.arg)
    /\ \E o \in DOMAIN store : o # call.id /\ store[o] # <<>>

\* C13: the load of an id the store has no record of returns [] and leaves
\* the store as it is; the activation of such an id shows an empty, ready
\* conversation; and a submit to it starts a turn whose history is the
\* submitted user message alone, saved under the id.
C13_UnknownIsFresh ==
    [][/\ \A id \in Ids :
            (StoreLoad(id) /\ id \notin DOMAIN store)
            => (call'.result = <<>> /\ store' = store)
       /\ \A id \in Ids :
            (StoreActivate(id) /\ id \notin DOMAIN store)
            => (messages' = <<>> /\ ThreadShown' /\ status'[id] = "ready")
       /\ \A text \in Texts :
            (/\ SendClick(text)
             /\ call.op = "activate" /\ ~call.had /\ call.id = activeThreadId)
            => /\ messages' = <<UserMessage(text)>>
               /\ reqs'[Len(reqs')].base = <<UserMessage(text)>>
               /\ activeThreadId \in DOMAIN store'
               /\ store'[activeThreadId] = JSONStringify(<<UserMessage(text)>>)]_vars
\* A turn was submitted to a conversation activated on an id without record,
\* while the store held another conversation.
C13_Witness ==
    /\ call.op = "activate" /\ ~call.had /\ call.id = activeThreadId
    /\ \E i \in 1..Len(reqs) : reqs[i].tid = activeThreadId
    /\ \E o \in DOMAIN store : o # activeThreadId /\ store[o] # <<>>

\* C14: list() holds one summary for each stored conversation and no other,
\* most recently created first (compared for the conversations that have
\* messages: their creation time is their first message's createdAt, an
\* empty record holds no time).
C14_ListComplete ==
    call.op = "list"
    => /\ Len(call.listing) = Cardinality(DOMAIN store)
       /\ \A id \in DOMAIN store :
             \E i \in 1..Len(call.listing) : call.listing[i].id = id
       /\ \A i, j \in 1..Len(call.listing) :
             (/\ i < j
              /\ store[call.listing[i].id] # <<>>
              /\ store[call.listing[j].id] # <<>>)
             => call.listing[i].createdAt.t >= call.listing[j].createdAt.t

\* C15: a step during which the shown conversation stays Streaming writes
\* nothing to its record (the record is written on turn completion only).
C15_NoWriteWhileStreaming ==
    [][(/\ ViewStreaming /\ ViewStreaming'
        /\ activeThreadId' = activeThreadId
        /\ activeThreadId \in DOMAIN store /\ activeThreadId \in DOMAIN store')
       => store'[activeThreadId] = store[activeThreadId]]_vars

\* Request r was started by a submit: its history is the one of the render
\* plus the submitted user message.
IsSubmitTurn(r) == Len(r.base) = Len(r.closure) + 1

\* Message m is in msgs (as it is, or as it loads from the store).
Holds(msgs, m) ==
    \E j \in 1..Len(msgs) : JSONStringifyMessage(msgs[j]) = JSONStringifyMessage(m)

\* C16: when the request of a submitted turn of the shown conversation fails
\* before any fragment, the turn is surfaced as failed (status error), the
\* failure appends nothing to the conversation's messages, the submitted user
\* message is still among them, and the composer accepts a submit.
C16_FailureKeepsUserMessage ==
    [][\A i \in 1..MaxSubmits :
          (/\ ProviderError(i) /\ TurnOfView(i)
           /\ IsSubmitTurn(reqs[i]) /\ reqs[i].emitted = <<>>)
          => /\ status'[activeThreadId] = "error"
             /\ messages' = messages
             /\ Holds(messages', Last(reqs[i].base))
             /\ ThreadShown' /\ ~ChatLoading(activeThreadId)']_vars

\* C17: with the storage full (every saveChat throws), the completion of a
\* submitted turn of the shown conversation still leaves the view Ready with
\* the user message and, last, the finalized assistant message in memory.
C17_SaveFailureNotBlocking ==
    [][\A i \in 1..MaxSubmits :
          (/\ Finish(i) /\ storageFull /\ TurnOfView(i) /\ IsSubmitTurn(reqs[i]))
          => /\ ThreadShown' /\ status'[activeThreadId] = "ready"
             /\ Holds(messages', Last(reqs[i].base))
             /\ Len(messages') > 0
             /\ JSONStringifyMessage(Last(messages'))
                  = JSONStringifyMessage(AssistantMessage(Concat(reqs[i].emitted)))]_vars

\* The query text of a request as the endpoint takes it: of the last message.
TurnQuery(msgs) ==
    IF Len(msgs) = 0 THEN <<>> ELSE QueryTextOf(msgs[Len(msgs)].content)
HasUser(msgs) == \E j \in 1..Len(msgs) : msgs[j].role = "user"
LastUser(msgs) ==
    msgs[CHOOSE j \in 1..Len(msgs) :
            /\ msgs[j].role = "user"
            /\ \A h \in (j + 1)..Len(msgs) : msgs[h].role # "user"]

\* C18: past the retrieval step of a request whose query text is empty or
\* blank, the retriever was not invoked and the passage list is empty.
C18_BlankQuerySkipsRetrieval ==
    (route.pc \in {"generate", "done"} /\ IsBlank(TurnQuery(route.messages)))
    => (~route.retrieverCalled /\ route.retrievedDocs = <<>>)

\* C19: the query the retriever was invoked with is the flattened text of
\* the most recent user message of the submitted history.
C19_QueryIsLastUserMessage ==
    route.retrieverCalled
    => /\ HasUser(route.messages)
       /\ route.queryText = QueryTextOf(LastUser(route.messages).content)

\* C20: a request that reached generation carries no system block when its
\* passage list is empty and exactly one when it is not.
C20_GroundingIffPassages ==
    (route.pc = "done" /\ route.response = "stream")
    => /\ route.retrievedDocs = <<>> => (route.system = <<>> /\ ~route.hasSystem)
       /\ route.retrievedDocs # <<>> => (Len(route.system) = 1 /\ route.hasSystem)
\* Generation was started after a retrieval that failed: no passages, no
\* system block.
C20_Witness ==
    /\ route.pc = "done" /\ route.response = "stream"
    /\ route.retrieverCalled /\ route.retrieverFails /\ route.index # {}
    /\ route.retrievedDocs = <<>> /\ route.system = <<>>

\* The locators a retrieved passage carries in its metadata.
Locators(doc) == {doc.source, doc.url} \ {""}
\* The passages of docs are in descending order of score.
Descending(docs) ==
    \A j \in 1..Len(docs) : \A h \in (j + 1)..Len(docs) : docs[h].score <= docs[j].score

\* C21: the grounding block of a request with passages holds one labeled
\* entry per passage, in the retriever's order (descending score), each with
\* that passage's text and with a locator of that passage.
C21_BlockPerPassage ==
    (route.pc = "done" /\ route.response = "stream" /\ route.retrievedDocs # <<>>)
    => /\ Len(route.system) = 1
       /\ Len(route.system[1]) = Len(route.retrievedDocs)
       /\ Descending(route.retrievedDocs)
       /\ \A j \in 1..Len(route.retrievedDocs) :
            /\ route.system[1][j].pageContent = route.retrievedDocs[j].pageContent
            /\ Locators(route.retrievedDocs[j]) # {}
                 => route.system[1][j].source \in Locators(route.retrievedDocs[j])


\* C22: the title of a listed conversation is the content of its first user
\* message when that has at most 30 characters, its first 30 characters and
\* an ellipsis when it is longer, and "Chat " with the first 6 characters of
\* the id when the conversation has no user message.
C22_TitleRule ==
    call.op = "list"
    => \A i \in 1..Len(call.listing) :
         LET e == call.listing[i]
             msgs == store[e.id]
             users == {j \in 1..Len(msgs) : msgs[j].role = "user"}
         IN IF users = {}
              THEN /\ e.title.text = <<>> /\ ~e.title.ellipsis
                   /\ Len(e.title.fromId) = 6
                   /\ \A j \in 1..6 : e.title.fromId[j] = IdChars(e.id)[j]
              ELSE LET c == msgs[CHOOSE j \in users : \A h \in users : j <= h].content
                   IN /\ e.title.fromId = <<>>
                      /\ Len(c) <= 30 => (e.title.text = c /\ ~e.title.ellipsis)
                      /\ Len(c) > 30 => /\ e.title.ellipsis
                                        /\ Len(e.title.text) = 30
                                        /\ \A j \in 1..30 : e.title.text[j] = c[j]
\* A listing with a truncated title and a title made from the id.
C22_Witness ==
    /\ call.op = "list"
    /\ \E i, j \in 1..Len(call.listing) :
          /\ call.listing[i].title.ellipsis
          /\ store[call.listing[i].id][1].role = "assistant"
          /\ call.listing[j].title.fromId # <<>>

\* C23: the first activation, no conversation chosen, creates a conversation
\* and leaves the view Ready on the new id with no messages; the activation
\* of a chosen id leaves the view Ready on that id with the sequence
\* load(id) returned as its messages.
C23_ActivationReachesReady ==
    [][/\ InitChat
          => /\ activeThreadId' \notin DOMAIN store /\ activeThreadId' \in DOMAIN store'
             /\ ViewReady' /\ messages' = <<>>
       /\ \A id \in Ids :
            SelectThread(id)
              => /\ activeThreadId' = id
                 /\ ViewReady' /\ messages' = LoadChat(store, id)]_vars

\* C24: creating a new thread while the shown conversation is Streaming
\* leaves that conversation's in-memory messages and its status as they were.
C24_NewThreadKeepsTurn ==
    [][(HandleNewThread /\ ViewStreaming)
         => /\ MessagesOf(cache', <<>>, activeThreadId) = messages
            /\ status'[activeThreadId] = status[activeThreadId]]_vars

\* The messages that belong to conversation id in a state: those of its
\* record, of its in-memory list, and of the requests started in it.
RECURSIVE Range(_)
Range(seq) == IF seq = <<>> THEN {} ELSE {JSONStringifyMessage(seq[1])} \cup Range(Tail(seq))
OwnMessages(st, c, rs, id) ==
    Range(LoadChat(st, id)) \cup Range(MessagesOf(c, <<>>, id))
    \cup UNION {Range(rs[i].base) \cup Range(rs[i].closure)
                \cup {JSONStringifyMessage(AssistantMessage(Concat(rs[i].emitted)))} :
                i \in {j \in 1..Len(rs) : rs[j].key = id}}

\* C26: every message a step leaves in the record of a conversation is one
\* of that conversation (of its record, its in-memory list or its requests,
\* before or after the step): no message of another conversation is written
\* under its id.
C26_StoreIsolation ==
    [][\A id \in DOMAIN store' :
          Range(store'[id]) \subseteq
             OwnMessages(store, cache, reqs, id) \cup OwnMessages(<<>>, cache', reqs', id)]_vars

\* C27: while the loading flag is set, the step that clears it can be taken.
C27_LoadingCleared == isLoading => ENABLED InitChat

\* C25: the creation timestamp of a summary is the timestamp of the first
\* message of the conversation, and a list() that follows a list() of the
\* same store gives every conversation, the empty ones too, the creation
\* timestamp it had in the first.
C25_CreatedAtStable ==
    call.op = "list"
    => /\ \A i \in 1..Len(call.listing) :
            store[call.listing[i].id] # <<>>
            => call.listing[i].createdAt.t = store[call.listing[i].id][1].createdAt.t
       /\ call.again
            => \A i \in 1..Len(call.listing), j \in 1..Len(call.earlier) :
                  call.listing[i].id = call.earlier[j].id
                  => call.listing[i].createdAt = call.earlier[j].createdAt

\* The requests of the ChatForm that are in flight.
FormOpen == {i \in 1..Len(form.requests) : form.requests[i].st = "open"}

\* C28: the ChatForm has at most one chat request in flight, and no request
\* was started with an input that is empty or blank.
C28_OneFormRequest ==
    /\ Cardinality(FormOpen) <= 1
    /\ \A i \in 1..Len(form.requests) : form.requests[i].content \notin {"", " "}

\* C29: every query the backend received carries a collection scope, the one
\* the request was sent with; and every request sent after a successful
\* scrape whose handling is over reached the backend with that scope.
C29_QueryCarriesCollection ==
    /\ \A j \in 1..Len(form.queries) :
          /\ form.queries[j].scoped
          /\ form.queries[j].collection_name
               = form.requests[form.queries[j].request].collection_name
    /\ \A i \in 1..Len(form.requests) :
          (form.requests[i].st = "done" /\ form.requests[i].collection_name # NoCollection)
          => \E j \in 1..Len(form.queries) :
                /\ form.queries[j].request = i
                /\ form.queries[j].collection_name = form.requests[i].collection_name

\* C30: the onFinish of the OpenAI endpoint leaves the store as it is, and
\* calls saveChat only for a request that carries an id.
C30_ServerNeverWrites ==
    [][RouteOnFinish
         => /\ store' = store
            /\ ~Truthy(route.id) => ~route'.saveCalled]_vars
\* onFinish has called saveChat for a request whose id has a stored
\* conversation.
C30_Witness ==
    /\ route.finished /\ route.saveCalled
    /\ route.id \in DOMAIN store /\ store[route.id] # <<>>

\* C31: the persist run by the changes of the message list writes no empty
\* sequence (no record with messages becomes empty), and a step that leaves
\* the active conversation with no messages in memory (a cleared list, the
\* load of an id without messages, a fresh thread) leaves the record of that
\* id as it was, for a fresh thread as createChat wrote it.
C31_NoEmptyPersist ==
    [][/\ \A id \in DOMAIN store \cap DOMAIN store' :
            store'[id] = <<>> => store[id] = <<>>
       /\ (Reload /\ messages' = <<>>) => store' = store
       /\ \A id \in Ids : (StoreActivate(id) /\ messages' = <<>>) => store' = store
       /\ (HandleNewThread /\ messages' = <<>>)
            => store' = CreateChat(store, nextId)]_vars

\* The store without the records that are no message list, and the keys of
\* an enumeration that remain.
GoodStore == [k \in {j \in DOMAIN store : Listable(store[j])} |-> store[k]]
GoodKeys(keys) == SelectSeq(keys, LAMBDA k : k \in DOMAIN GoodStore)

\* C32: list() leaves the store as it is and returns what it returns for the
\* store without the corrupt records, enumerated in the same order: no
\* summary for a corrupt record, one for every other conversation, in the
\* same order.
C32_ListSkipsCorrupt ==
    [][\A keys \in KeyOrders(store) :
          StoreList(keys)
          => /\ store' = store
             /\ {call'.listing[i].id : i \in 1..Len(call'.listing)} = DOMAIN GoodStore
             /\ Len(call'.listing) = Cardinality(DOMAIN GoodStore)
             /\ call'.listing \in {SortChats([i \in 1..Len(GoodKeys(keys)) |->
                                      ChatSummary(GoodStore, GoodKeys(keys)[i], now)]) :
                                   now \in ListTimes}]_vars
\* A listing of a store with a corrupt record and a conversation.
C32_Witness ==
    /\ call.op = "list" /\ Len(call.listing) = 1
    /\ \E id \in DOMAIN store : ~Listable(store[id])
    /\ store[call.listing[1].id] # <<>>

TypeOK ==
    /\ DOMAIN store \subseteq Ids
    /\ threads \subseteq DOMAIN store
    /\ activeThreadId \in Keys
====
